---- MODULE Spec2Model ----
(***************************************************************************)
(* Model of algebraic_value_editing/sweeps.py: the descriptor-set builder  *)
(* (make_rich_prompts), the two sweep runners (sweep_over_prompts,         *)
(* sweep_over_metrics) acting on one shared model instance whose hook      *)
(* state is global, and the reducer (reduce_sweep_results).                *)
(***************************************************************************)
EXTENDS Integers, Sequences, FiniteSets, TLC

\* ------------------------------------------------------------------------
\* Bounds of the model
\* ------------------------------------------------------------------------
MaxGroups == 2
MaxSites == 2
MaxCoeffs == 2
MaxPrompts == 2
MaxSets == 2
MaxTrials == 2
MaxRows == 3
MaxNormalRows == 2

\* ------------------------------------------------------------------------
\* Values
\* ------------------------------------------------------------------------
\* A phrase is a string, modelled as the sequence of its characters; the
\* character 0 is the space.  A phrase-group is a list of (phrase, coeff).
GroupSet ==
  { << >>,
    << << << >>, 1 >> >>,
    << << <<1>>, 1 >>, << << >>, -1 >> >>,
    << << <<1, 2>>, 2 >>, << <<0>>, -1 >>, << <<2, 0>>, 3 >> >> }

SiteList == <<0, 5, 7, 9>>
CoeffList == <<10, -1, 0, 3>>

Prefixes(list, n) == { SubSeq(list, 1, k) : k \in 0..n }

RECURSIVE SeqsUpTo(_, _)
SeqsUpTo(S, n) ==
  IF n = 0 THEN { << >> }
  ELSE LET shorter == SeqsUpTo(S, n - 1)
       IN shorter \cup { Append(s, x) : s \in { t \in shorter : Len(t) = n - 1 }, x \in S }

Max(S) == CHOOSE x \in S : \A y \in S : y <= x

\* ------------------------------------------------------------------------
\* The model's tokenizer and torch helpers used by make_rich_prompts
\* ------------------------------------------------------------------------
\* model.to_single_token(" "): the id of the one token of the string.
to_single_token(ch) == 10 + ch

\* model.to_tokens(phrase)[0]: a 1-D tensor, the BOS token then one token
\* per character.
to_tokens(phrase) == <<1>> \o [i \in 1..Len(phrase) |-> 10 + phrase[i]]

\* torch.nn.functional.pad(tokens, (0, right), mode="constant", value=v)
F_pad(tokens, right, value) == tokens \o [i \in 1..right |-> value]

\* Tensor.squeeze(): every dimension of size 1 is dropped, so a 1-D tensor
\* of one element becomes a 0-dimensional scalar tensor.
squeeze(tokens) ==
  IF Len(tokens) = 1 THEN [ndim |-> 0, data |-> tokens]
  ELSE [ndim |-> 1, data |-> tokens]

\* RichPrompt(coeff=, act_name=, prompt=|tokens=): an absent keyword is
\* None, modelled as the empty set; a given one as a singleton.
RichPrompt(coeff, act_name, prompt, tokens) ==
  [coeff |-> coeff, act_name |-> act_name, prompt |-> prompt, tokens |-> tokens]

VARIABLES
  mk_phrases, mk_act_names, mk_coeffs, mk_pad, mk_model,  \* arguments
  mk_pc, mk_gi, mk_ai, mk_ci,                             \* position
  mk_rows, mk_err, mk_ntok

varsMake == << mk_phrases, mk_act_names, mk_coeffs, mk_pad, mk_model,
               mk_pc, mk_gi, mk_ai, mk_ci, mk_rows, mk_err, mk_ntok >>

VARIABLES
  op, pc, err,                      \* the running sweep, its position, its error
  hooks, hooks_at_call,             \* the model's installed hooks
  prompts, texts, rich_prompts, single_pass,
  num_normal_completions, num_patched_completions, metrics_dict,
  pi, it_pos, enum_next, index,     \* loop state
  hook_fns, cur_df,
  normal_list, patched_list, normal_all, patched_all

varsSweep == << op, pc, err, hooks, hooks_at_call,
                prompts, texts, rich_prompts, single_pass,
                num_normal_completions, num_patched_completions, metrics_dict,
                pi, it_pos, enum_next, index, hook_fns, cur_df,
                normal_list, patched_list, normal_all, patched_all >>

VARIABLES
  rd_pc, normal_df, patched_df, rich_prompts_df,   \* arguments
  reduced_normal_df, reduced_joined_df             \* the returned pair

varsReduce == << rd_pc, normal_df, patched_df, rich_prompts_df,
                 reduced_normal_df, reduced_joined_df >>

vars == << varsMake, varsSweep, varsReduce >>

\* ------------------------------------------------------------------------
\* make_rich_prompts
\* ------------------------------------------------------------------------
\* assert pad is False or model is not None
PadAssertMut(pad, model) == TRUE
PadAssert(pad, model) == (~pad) \/ model

\* scaled coefficient of a descriptor
ScaledCoeffMut(init_coeff, coeff) == init_coeff + coeff
ScaledCoeff(init_coeff, coeff) == init_coeff * coeff

\* lines 64-69: tokenize every phrase of the group, take the longest
TokensList(phrases_this) ==
  [i \in 1..Len(phrases_this) |-> to_tokens(phrases_this[i][1])]

MaxLen(tokens_list) == Max({ Len(tokens_list[i]) : i \in 1..Len(tokens_list) })

\* lines 71-79: right-pad each tensor to max_len with the pad token
PadAmountMut(max_len, len) == max_len - len + 1
PadAmount(max_len, len) == max_len - len

PadTokensList(tokens_list, max_len, pad_token) ==
  [i \in 1..Len(tokens_list) |->
     F_pad(tokens_list[i], PadAmount(max_len, Len(tokens_list[i])), pad_token)]

\* lines 81-90
PaddedRichPrompts(phrases_this, act_name, coeff) ==
  LET pad_token == to_single_token(0)
      tokens_list == TokensList(phrases_this)
      padded == PadTokensList(tokens_list, MaxLen(tokens_list), pad_token)
  IN [i \in 1..Len(phrases_this) |->
        RichPrompt(ScaledCoeff(phrases_this[i][2], coeff), act_name,
                   {}, {squeeze(padded[i])})]

\* lines 93-100
PlainRichPromptsMut(phrases_this, act_name, coeff) ==
  [i \in 1..Len(phrases_this) |->
     RichPrompt(ScaledCoeff(phrases_this[i][2], coeff), act_name,
                {phrases_this[i][1]}, {squeeze(to_tokens(phrases_this[i][1]))})]

PlainRichPrompts(phrases_this, act_name, coeff) ==
  [i \in 1..Len(phrases_this) |->
     RichPrompt(ScaledCoeff(phrases_this[i][2], coeff), act_name,
                {phrases_this[i][1]}, {})]

\* lines 101-108
RowMut(rich_prompts_this, phrases_this, act_name, coeff) ==
  [rich_prompts |-> rich_prompts_this, phrases |-> phrases_this,
   act_name |-> coeff, coeff |-> act_name]

Row(rich_prompts_this, phrases_this, act_name, coeff) ==
  [rich_prompts |-> rich_prompts_this, phrases |-> phrases_this,
   act_name |-> act_name, coeff |-> coeff]

\* lines 56-110 without padding, as one function of the arguments: the rows
\* of the three nested loops in the order in which they are appended
RowsForCoeffs(phrases_this, act_name, coeffs) ==
  [c \in 1..Len(coeffs) |->
     Row(PlainRichPrompts(phrases_this, act_name, coeffs[c]),
         phrases_this, act_name, coeffs[c])]

RECURSIVE RowsForActNames(_, _, _)
RowsForActNames(phrases_this, act_names, coeffs) ==
  IF act_names = << >> THEN << >>
  ELSE RowsForCoeffs(phrases_this, Head(act_names), coeffs)
         \o RowsForActNames(phrases_this, Tail(act_names), coeffs)

RECURSIVE MakeTable(_, _, _)
MakeTable(phrases, act_names, coeffs) ==
  IF phrases = << >> THEN << >>
  ELSE RowsForActNames(Head(phrases), act_names, coeffs)
         \o MakeTable(Tail(phrases), act_names, coeffs)

InitMake ==
  /\ mk_phrases \in SeqsUpTo(GroupSet, MaxGroups)
  /\ mk_act_names \in Prefixes(SiteList, MaxSites)
  /\ mk_coeffs \in Prefixes(CoeffList, MaxCoeffs)
  /\ mk_pad \in BOOLEAN
  /\ mk_model \in BOOLEAN
  /\ mk_pc = "call"
  /\ mk_gi = 0 /\ mk_ai = 0 /\ mk_ci = 0
  /\ mk_rows = << >>
  /\ mk_err = "none"
  /\ mk_ntok = 0

\* lines 53-56
mk_Assert ==
  /\ mk_pc = "call"
  /\ IF PadAssert(mk_pad, mk_model)
     THEN mk_pc' = "for_phrases" /\ mk_err' = mk_err
     ELSE mk_pc' = "raised" /\ mk_err' = "AssertionError"
  /\ UNCHANGED << mk_phrases, mk_act_names, mk_coeffs, mk_pad, mk_model,
                  mk_gi, mk_ai, mk_ci, mk_rows, mk_ntok >>

\* line 57, and line 110 when the groups are exhausted
mk_ForPhrases ==
  /\ mk_pc = "for_phrases"
  /\ IF mk_gi < Len(mk_phrases)
     THEN mk_gi' = mk_gi + 1 /\ mk_ai' = 0 /\ mk_pc' = "for_act_names"
     ELSE mk_pc' = "returned" /\ UNCHANGED << mk_gi, mk_ai >>
  /\ UNCHANGED << mk_phrases, mk_act_names, mk_coeffs, mk_pad, mk_model,
                  mk_ci, mk_rows, mk_err, mk_ntok >>

\* line 58
mk_ForActNames ==
  /\ mk_pc = "for_act_names"
  /\ IF mk_ai < Len(mk_act_names)
     THEN mk_ai' = mk_ai + 1 /\ mk_ci' = 0 /\ mk_pc' = "for_coeffs"
     ELSE mk_pc' = "for_phrases" /\ UNCHANGED << mk_ai, mk_ci >>
  /\ UNCHANGED << mk_phrases, mk_act_names, mk_coeffs, mk_pad, mk_model,
                  mk_gi, mk_rows, mk_err, mk_ntok >>

\* lines 59-108: one pass of the innermost loop
mk_ForCoeffs ==
  /\ mk_pc = "for_coeffs"
  /\ LET phrases_this == mk_phrases[mk_gi]
         act_name == mk_act_names[mk_ai]
     IN IF mk_ci < Len(mk_coeffs)
        THEN LET coeff == mk_coeffs[mk_ci + 1]
             IN /\ mk_ci' = mk_ci + 1
                /\ IF mk_pad
                   THEN IF ~mk_model
                        THEN \* line 62: None has no to_single_token
                             /\ mk_pc' = "raised"
                             /\ mk_err' = "AttributeError"
                             /\ UNCHANGED << mk_rows, mk_ntok >>
                        ELSE IF Len(phrases_this) = 0
                        THEN \* line 69: max() of an empty list
                             /\ mk_pc' = "raised"
                             /\ mk_err' = "ValueError"
                             /\ mk_ntok' = mk_ntok + 1
                             /\ UNCHANGED mk_rows
                        ELSE /\ mk_rows' = Append(mk_rows,
                                  Row(PaddedRichPrompts(phrases_this, act_name, coeff),
                                      phrases_this, act_name, coeff))
                             /\ mk_ntok' = mk_ntok + 1 + Len(phrases_this)
                             /\ UNCHANGED << mk_pc, mk_err >>
                   ELSE /\ mk_rows' = Append(mk_rows,
                             Row(PlainRichPrompts(phrases_this, act_name, coeff),
                                 phrases_this, act_name, coeff))
                        /\ UNCHANGED << mk_pc, mk_err, mk_ntok >>
        ELSE /\ mk_pc' = "for_act_names"
             /\ UNCHANGED << mk_ci, mk_rows, mk_err, mk_ntok >>
  /\ UNCHANGED << mk_phrases, mk_act_names, mk_coeffs, mk_pad, mk_model,
                  mk_gi, mk_ai >>

\* ------------------------------------------------------------------------
\* The shared model instance and the intervention session
\* ------------------------------------------------------------------------
Owner(o, p, k) == [op |-> o, prompt |-> p, index |-> k]

\* a hook some caller left on the model before a sweep is called
PreHook == [act_name |-> 0, fn |-> [act_name |-> 0, adds |-> << >>],
            owner |-> Owner("caller", 0, 0)]

PromptList == <<"p1", "p2", "p3", "p4">>

\* descriptor sets handed to the sweeps: a two-phrase difference at one
\* site, a set spanning two sites, the empty set, the first set scaled
SetList ==
  << PlainRichPrompts(<< << <<1>>, 1 >>, << << >>, -1 >> >>, 0, 10),
     << RichPrompt(2, 5, {<<1, 2>>}, {}), RichPrompt(-1, 0, {<<2>>}, {}) >>,
     << >>,
     PlainRichPrompts(<< << <<1>>, 1 >>, << << >>, -1 >> >>, 0, -1) >>

\* a table of make_rich_prompts whose rich_prompts column is handed to the
\* sweeps: one group, two sites, two coefficients
PipelineTable ==
  MakeTable(<< << << <<1>>, 1 >>, << << >>, -1 >> >> >>, <<0, 5>>, <<10, -1>>)

\* rich_prompts_df["rich_prompts"]
RichPromptsColumn(df) == [k \in 1..Len(df) |-> df[k].rich_prompts]

\* the values of the rich_prompts argument of the sweeps
RichPromptsArgs ==
  Prefixes(SetList, MaxSets) \cup { RichPromptsColumn(PipelineTable) }

RECURSIVE SitesInOrder(_)
SitesInOrder(rps) ==
  IF rps = << >> THEN << >>
  ELSE LET front == SitesInOrder(SubSeq(rps, 1, Len(rps) - 1))
           site == rps[Len(rps)].act_name
       IN IF \E i \in 1..Len(front) : front[i] = site THEN front
          ELSE Append(front, site)

RECURSIVE AtSite(_, _)
AtSite(rps, site) ==
  IF rps = << >> THEN << >>
  ELSE LET front == AtSite(SubSeq(rps, 1, Len(rps) - 1), site)
       IN IF rps[Len(rps)].act_name = site THEN Append(front, rps[Len(rps)])
          ELSE front

\* hook_utils.hook_fns_from_rich_prompts: one function per site, adding the
\* contributions of the descriptors of that site; a dict keyed by site, in
\* the order in which the sites first appear
hook_fns_from_rich_prompts(rps) ==
  LET sites == SitesInOrder(rps)
  IN [i \in 1..Len(sites) |->
        [act_name |-> sites[i], adds |-> AtSite(rps, sites[i])]]

\* the per-position representation of a descriptor's content at its site
\* (one number per position): the phrase is tokenized and encoded by a
\* forward pass, given tokens are encoded as they are
Representation(rp) ==
  LET toks == IF rp.prompt # {} THEN to_tokens(CHOOSE p \in rp.prompt : TRUE)
              ELSE (CHOOSE t \in rp.tokens : TRUE).data
  IN [i \in 1..Len(toks) |-> toks[i] * (rp.act_name + 1) + i]

\* coefficient x representation of one descriptor at position i of the
\* target: nothing beyond the descriptor's own length
Contribution(rp, i) ==
  IF i <= Len(Representation(rp)) THEN rp.coeff * Representation(rp)[i] ELSE 0

RECURSIVE SumContributions(_, _)
SumContributions(adds, i) ==
  IF adds = << >> THEN 0
  ELSE Contribution(Head(adds), i) + SumContributions(Tail(adds), i)

\* the compiled function of one site applied to the activation at that
\* site: the contributions are summed position by position, aligned at
\* position 0; trailing positions pass through
ApplyFn(fn, target) ==
  [i \in 1..Len(target) |-> target[i] + SumContributions(fn.adds, i)]

\* the forward pass through one site of the model: every hook installed at
\* the site acts on the activation, in the order of installation
RECURSIVE ApplyHooks(_, _, _)
ApplyHooks(installed, site, target) ==
  IF installed = << >> THEN target
  ELSE LET rest == ApplyHooks(SubSeq(installed, 1, Len(installed) - 1), site, target)
           last == installed[Len(installed)]
       IN IF last.act_name = site THEN ApplyFn(last.fn, rest) ELSE rest

\* model.remove_all_hook_fns()
remove_all_hook_fns(installed) == << >>

\* for act_name, hook_fn in hook_fns.items(): model.add_hook(act_name, hook_fn)
add_hooksMut(installed, fns, owner) ==
  installed \o [i \in 1..Len(fns) |->
                  [act_name |-> fns[1].act_name, fn |-> fns[i], owner |-> owner]]

add_hooks(installed, fns, owner) ==
  installed \o [i \in 1..Len(fns) |->
                  [act_name |-> fns[i].act_name, fn |-> fns[i], owner |-> owner]]

\* sweep_over_metrics, lines 260 and 268
HooksBeforeInstallMut(installed) == installed
HooksBeforeInstall(installed) == remove_all_hook_fns(installed)

HooksAfterMetricsMut(installed) == installed
HooksAfterMetrics(installed) == remove_all_hook_fns(installed)

\* sweep_over_prompts, line 173: hook_fns={}
BaselineHookFnsMut == hook_fns_from_rich_prompts(SetList[1])
BaselineHookFns == << >>

\* the rows one generation call yields: completions depend on the hooks
\* that are on the model while it generates
Completions(prompt, n, installed) ==
  [i \in 1..n |->
     [prompts |-> prompt, completion_index |-> i - 1, under |-> installed]]

\* metrics.add_metric_cols(texts_df, metrics_dict, cols_to_use="text"): one
\* row per text, the scores read the live hooked model; under records the
\* hooks that were on the model when the rows were produced
MetricRows(txts, installed) ==
  [i \in 1..Len(txts) |->
     [text |-> txts[i], text_index |-> i - 1, under |-> installed]]

\* patched_df["rich_prompt_index"] = index
WithColumn(df, name, value) ==
  [i \in 1..Len(df) |->
     [c \in DOMAIN df[i] \cup {name} |-> IF c = name THEN value ELSE df[i][c]]]

TagMut(df, k) == WithColumn(df, "rich_prompt_index", k + 1)
Tag(df, k) == WithColumn(df, "rich_prompt_index", k)

\* pd.concat(list).reset_index(names=...): the frames one after another, each
\* row keeping the index it had in its own frame
ConcatMut(list) == IF list = << >> THEN << >> ELSE list[Len(list)]

RECURSIVE Concat(_)
Concat(list) ==
  IF list = << >> THEN << >> ELSE Concat(SubSeq(list, 1, Len(list) - 1)) \o list[Len(list)]

\* metrics.add_metric_cols(normal_all, metrics_dict)
AddMetricCols(df) == WithColumn(df, "metric", 1)

SweepLocalsReset ==
  /\ err = "none"
  /\ prompts = << >> /\ texts = << >> /\ rich_prompts = << >>
  /\ single_pass = FALSE
  /\ num_normal_completions = 0 /\ num_patched_completions = 0
  /\ metrics_dict = FALSE
  /\ pi = 0 /\ it_pos = 0 /\ enum_next = 0 /\ index = 0
  /\ hook_fns = << >> /\ cur_df = << >>
  /\ normal_list = << >> /\ patched_list = << >>
  /\ normal_all = << >> /\ patched_all = << >>
  /\ hooks_at_call = << >>

InitSweep ==
  /\ op = "idle" /\ pc = "idle"
  /\ hooks \in { << >>, <<PreHook>> }
  /\ SweepLocalsReset

sweepLoopVars == << pi, it_pos, enum_next, index >>
sweepArgs == << prompts, texts, rich_prompts, single_pass,
                num_normal_completions, num_patched_completions, metrics_dict,
                hooks_at_call >>
sweepTables == << normal_list, patched_list, normal_all, patched_all >>

\* the caller calls sweep_over_prompts(model, prompts, rich_prompts, N, M, ...)
Call_sweep_over_prompts ==
  /\ op = "idle"
  /\ op' = "sweep_over_prompts" /\ pc' = "for_prompt"
  /\ prompts' \in Prefixes(PromptList, MaxPrompts)
  /\ rich_prompts' \in RichPromptsArgs
  /\ single_pass' \in BOOLEAN
  /\ num_normal_completions' \in 0..MaxTrials
  /\ num_patched_completions' \in 0..MaxTrials
  /\ metrics_dict' \in BOOLEAN
  /\ hooks_at_call' = hooks
  /\ UNCHANGED << err, hooks, texts, sweepLoopVars, hook_fns, cur_df, sweepTables >>

\* line 167: for prompt in tqdm(prompts)
sp_ForPrompt ==
  /\ op = "sweep_over_prompts" /\ pc = "for_prompt"
  /\ IF pi < Len(prompts)
     THEN pi' = pi + 1 /\ pc' = "normal_clean"
     ELSE pi' = pi /\ pc' = "concat"
  /\ UNCHANGED << op, err, hooks, sweepArgs, it_pos, enum_next, index,
                  hook_fns, cur_df, sweepTables >>

\* lines 170-178, gen_using_hooks(hook_fns={}): the session removes what is
\* on the model, installs its mapping, generates, and removes on every exit
sp_NormalClean ==
  /\ op = "sweep_over_prompts" /\ pc = "normal_clean"
  /\ hooks' = remove_all_hook_fns(hooks)
  /\ pc' = "normal_install"
  /\ UNCHANGED << op, err, sweepArgs, sweepLoopVars, hook_fns, cur_df, sweepTables >>

sp_NormalInstall ==
  /\ op = "sweep_over_prompts" /\ pc = "normal_install"
  /\ hooks' = add_hooks(hooks, BaselineHookFns, Owner("sweep_over_prompts", pi, -1))
  /\ pc' = "normal_gen"
  /\ UNCHANGED << op, err, sweepArgs, sweepLoopVars, hook_fns, cur_df, sweepTables >>

sp_NormalGen ==
  /\ op = "sweep_over_prompts" /\ pc = "normal_gen"
  /\ \/ /\ cur_df' = Completions(prompts[pi], num_normal_completions, hooks)
        /\ err' = err
     \/ /\ err' = "GenerationError"
        /\ cur_df' = cur_df
  /\ pc' = "normal_close"
  /\ UNCHANGED << op, hooks, sweepArgs, sweepLoopVars, hook_fns, sweepTables >>

\* the session's exit: the hooks are removed, then an error goes on to
\* the caller
sp_NormalClose ==
  /\ op = "sweep_over_prompts" /\ pc = "normal_close"
  /\ hooks' = remove_all_hook_fns(hooks)
  /\ pc' = IF err # "none" THEN "raised" ELSE "normal_append"
  /\ UNCHANGED << op, err, sweepArgs, sweepLoopVars, hook_fns, cur_df, sweepTables >>

\* line 180, and line 182 starting its loop: a list is iterated from its
\* start again, a single-pass iterator goes on where it stopped
sp_NormalAppend ==
  /\ op = "sweep_over_prompts" /\ pc = "normal_append"
  /\ normal_list' = Append(normal_list, cur_df)
  /\ enum_next' = 0
  /\ it_pos' = IF single_pass THEN it_pos ELSE 0
  /\ pc' = "for_rich_prompts"
  /\ UNCHANGED << op, err, hooks, sweepArgs, pi, index, hook_fns, cur_df,
                  patched_list, normal_all, patched_all >>

\* line 182: for index, rich_prompts_this in enumerate(tqdm(rich_prompts))
sp_ForRichPrompts ==
  /\ op = "sweep_over_prompts" /\ pc = "for_rich_prompts"
  /\ IF it_pos < Len(rich_prompts)
     THEN /\ index' = enum_next
          /\ enum_next' = enum_next + 1
          /\ it_pos' = it_pos + 1
          /\ pc' = "patched_compile"
     ELSE /\ pc' = "for_prompt"
          /\ UNCHANGED << index, enum_next, it_pos >>
  /\ UNCHANGED << op, err, hooks, sweepArgs, pi, hook_fns, cur_df, sweepTables >>

\* lines 185-193, gen_using_rich_prompts: compile the set, then the session
sp_PatchedCompile ==
  /\ op = "sweep_over_prompts" /\ pc = "patched_compile"
  /\ hook_fns' = hook_fns_from_rich_prompts(rich_prompts[it_pos])
  /\ pc' = "patched_clean"
  /\ UNCHANGED << op, err, hooks, sweepArgs, sweepLoopVars, cur_df, sweepTables >>

sp_PatchedClean ==
  /\ op = "sweep_over_prompts" /\ pc = "patched_clean"
  /\ hooks' = remove_all_hook_fns(hooks)
  /\ pc' = "patched_install"
  /\ UNCHANGED << op, err, sweepArgs, sweepLoopVars, hook_fns, cur_df, sweepTables >>

sp_PatchedInstall ==
  /\ op = "sweep_over_prompts" /\ pc = "patched_install"
  /\ hooks' = add_hooks(hooks, hook_fns, Owner("sweep_over_prompts", pi, index))
  /\ pc' = "patched_gen"
  /\ UNCHANGED << op, err, sweepArgs, sweepLoopVars, hook_fns, cur_df, sweepTables >>

sp_PatchedGen ==
  /\ op = "sweep_over_prompts" /\ pc = "patched_gen"
  /\ \/ /\ cur_df' = Completions(prompts[pi], num_patched_completions, hooks)
        /\ err' = err
     \/ /\ err' = "GenerationError"
        /\ cur_df' = cur_df
  /\ pc' = "patched_close"
  /\ UNCHANGED << op, hooks, sweepArgs, sweepLoopVars, hook_fns, sweepTables >>

\* the session's exit
sp_PatchedClose ==
  /\ op = "sweep_over_prompts" /\ pc = "patched_close"
  /\ hooks' = remove_all_hook_fns(hooks)
  /\ pc' = IF err # "none" THEN "raised" ELSE "patched_tag"
  /\ UNCHANGED << op, err, sweepArgs, sweepLoopVars, hook_fns, cur_df, sweepTables >>

\* lines 194-196
sp_PatchedTag ==
  /\ op = "sweep_over_prompts" /\ pc = "patched_tag"
  /\ patched_list' = Append(patched_list, Tag(cur_df, index))
  /\ pc' = "for_rich_prompts"
  /\ UNCHANGED << op, err, hooks, sweepArgs, sweepLoopVars, hook_fns, cur_df,
                  normal_list, normal_all, patched_all >>

\* lines 198-199: pd.concat raises ValueError on an empty list
sp_Concat ==
  /\ op = "sweep_over_prompts" /\ pc = "concat"
  /\ IF normal_list = << >> \/ patched_list = << >>
     THEN /\ pc' = "raised" /\ err' = "ValueError"
          /\ normal_all' = IF normal_list = << >> THEN normal_all
                           ELSE Concat(normal_list)
          /\ UNCHANGED patched_all
     ELSE /\ normal_all' = Concat(normal_list)
          /\ patched_all' = Concat(patched_list)
          /\ pc' = "add_metric_cols" /\ err' = err
  /\ UNCHANGED << op, hooks, sweepArgs, sweepLoopVars, hook_fns, cur_df,
                  normal_list, patched_list >>

\* lines 201-204
sp_Metrics ==
  /\ op = "sweep_over_prompts" /\ pc = "add_metric_cols"
  /\ IF metrics_dict
     THEN \/ /\ normal_all' = AddMetricCols(normal_all)
             /\ patched_all' = AddMetricCols(patched_all)
             /\ pc' = "returned" /\ err' = err
          \/ /\ pc' = "raised" /\ err' = "MetricError"
             /\ UNCHANGED << normal_all, patched_all >>
     ELSE pc' = "returned" /\ UNCHANGED << err, normal_all, patched_all >>
  /\ UNCHANGED << op, hooks, sweepArgs, sweepLoopVars, hook_fns, cur_df,
                  normal_list, patched_list >>

\* the caller calls sweep_over_metrics(model, texts, rich_prompts, metrics_dict);
\* line 251
Call_sweep_over_metrics ==
  /\ op = "idle"
  /\ op' = "sweep_over_metrics" /\ pc' = "for_rich_prompts"
  /\ texts' \in Prefixes(PromptList, MaxPrompts)
  /\ rich_prompts' \in RichPromptsArgs
  /\ single_pass' \in BOOLEAN
  /\ metrics_dict' \in BOOLEAN
  /\ hooks_at_call' = hooks
  /\ UNCHANGED << err, hooks, prompts, num_normal_completions,
                  num_patched_completions, sweepLoopVars, hook_fns, cur_df,
                  sweepTables >>

\* line 254: for index, rich_prompts_this in enumerate(tqdm(rich_prompts))
sm_ForRichPrompts ==
  /\ op = "sweep_over_metrics" /\ pc = "for_rich_prompts"
  /\ IF it_pos < Len(rich_prompts)
     THEN /\ index' = enum_next
          /\ enum_next' = enum_next + 1
          /\ it_pos' = it_pos + 1
          /\ pc' = "compile"
     ELSE /\ pc' = "concat"
          /\ UNCHANGED << index, enum_next, it_pos >>
  /\ UNCHANGED << op, err, hooks, sweepArgs, pi, hook_fns, cur_df, sweepTables >>

\* lines 255-258
sm_Compile ==
  /\ op = "sweep_over_metrics" /\ pc = "compile"
  /\ hook_fns' = hook_fns_from_rich_prompts(rich_prompts[it_pos])
  /\ pc' = "remove"
  /\ UNCHANGED << op, err, hooks, sweepArgs, sweepLoopVars, cur_df, sweepTables >>

\* line 260
sm_Remove ==
  /\ op = "sweep_over_metrics" /\ pc = "remove"
  /\ hooks' = HooksBeforeInstall(hooks)
  /\ pc' = "install"
  /\ UNCHANGED << op, err, sweepArgs, sweepLoopVars, hook_fns, cur_df, sweepTables >>

\* lines 261-262
sm_Install ==
  /\ op = "sweep_over_metrics" /\ pc = "install"
  /\ hooks' = add_hooks(hooks, hook_fns, Owner("sweep_over_metrics", 0, index))
  /\ pc' = "metrics"
  /\ UNCHANGED << op, err, sweepArgs, sweepLoopVars, hook_fns, cur_df, sweepTables >>

\* lines 263-267; a metric function that raises leaves the function at
\* line 263, nothing below it runs; metrics_dict FALSE is the empty dict,
\* with which no metric function is called
sm_MetricsMut ==
  /\ op = "sweep_over_metrics" /\ pc = "metrics"
  /\ \/ /\ patched_list' = Append(patched_list, Tag(MetricRows(texts, hooks), index))
        /\ err' = err
     \/ /\ metrics_dict
        /\ err' = "MetricError"
        /\ UNCHANGED patched_list
  /\ pc' = "remove_after"
  /\ UNCHANGED << op, hooks, sweepArgs, sweepLoopVars, hook_fns, cur_df,
                  normal_list, normal_all, patched_all >>

sm_Metrics ==
  /\ op = "sweep_over_metrics" /\ pc = "metrics"
  /\ \/ /\ patched_list' = Append(patched_list, Tag(MetricRows(texts, hooks), index))
        /\ pc' = "remove_after" /\ err' = err
     \/ /\ metrics_dict
        /\ pc' = "raised" /\ err' = "MetricError"
        /\ UNCHANGED patched_list
  /\ UNCHANGED << op, hooks, sweepArgs, sweepLoopVars, hook_fns, cur_df,
                  normal_list, normal_all, patched_all >>

\* line 268
sm_RemoveAfter ==
  /\ op = "sweep_over_metrics" /\ pc = "remove_after"
  /\ hooks' = HooksAfterMetrics(hooks)
  /\ pc' = "for_rich_prompts"
  /\ UNCHANGED << op, err, sweepArgs, sweepLoopVars, hook_fns, cur_df, sweepTables >>

\* lines 271-272
sm_Concat ==
  /\ op = "sweep_over_metrics" /\ pc = "concat"
  /\ IF patched_list = << >>
     THEN pc' = "raised" /\ err' = "ValueError" /\ UNCHANGED patched_all
     ELSE patched_all' = Concat(patched_list) /\ pc' = "returned" /\ err' = err
  /\ UNCHANGED << op, hooks, sweepArgs, sweepLoopVars, hook_fns, cur_df,
                  normal_list, patched_list, normal_all >>

\* the call is over; the caller goes on with the same model instance
CallerContinues ==
  /\ op # "idle" /\ pc \in {"returned", "raised"}
  /\ op' = "idle" /\ pc' = "idle"
  /\ err' = "none"
  /\ prompts' = << >> /\ texts' = << >> /\ rich_prompts' = << >>
  /\ single_pass' = FALSE
  /\ num_normal_completions' = 0 /\ num_patched_completions' = 0
  /\ metrics_dict' = FALSE
  /\ pi' = 0 /\ it_pos' = 0 /\ enum_next' = 0 /\ index' = 0
  /\ hook_fns' = << >> /\ cur_df' = << >>
  /\ normal_list' = << >> /\ patched_list' = << >>
  /\ normal_all' = << >> /\ patched_all' = << >>
  /\ hooks_at_call' = << >>
  /\ UNCHANGED hooks

\* ------------------------------------------------------------------------
\* reduce_sweep_results
\* ------------------------------------------------------------------------
\* rows of the tables handed to the reducer: a text column and one numeric
\* column beside the keys
PatchedRowSet ==
  [prompts : {"p1", "p2"}, rich_prompt_index : 0..1, loss : {1, 4},
   completions : {"text"}]

NormalRowSet == [prompts : {"p1", "p2"}, loss : {1, 4}, completions : {"text"}]

\* the table make_rich_prompts returns for one group, one site, two coeffs
ProvenanceTable ==
  LET g == << << <<1>>, 1 >>, << << >>, -1 >> >>
  IN << Row(PlainRichPrompts(g, 5, 10), g, 5, 10),
        Row(PlainRichPrompts(g, 5, -1), g, 5, -1) >>

RECURSIVE SumLoss(_)
SumLoss(rows) ==
  IF rows = << >> THEN 0 ELSE rows[1].loss + SumLoss(Tail(rows))

\* DataFrame.mean(numeric_only=True) of one group: the sum over the count,
\* kept as the exact fraction
Mean(rows) == [num |-> SumLoss(rows), den |-> Len(rows)]

\* line 285: the group key of the intervened table
GroupKeyMut(row) == << row.prompts, 0 >>
GroupKey(row) == << row.prompts, row.rich_prompt_index >>

\* the rows of one group, in table order; keys[i] is the key of row i
RECURSIVE SelectRows(_, _, _)
SelectRows(df, keys, key) ==
  IF df = << >> THEN << >>
  ELSE IF keys[1] = key
       THEN <<df[1]>> \o SelectRows(Tail(df), Tail(keys), key)
       ELSE SelectRows(Tail(df), Tail(keys), key)

\* groupby sorts the group keys
PromptRank(p) == CHOOSE i \in 1..Len(PromptList) : PromptList[i] = p

KeyBefore(k1, k2) ==
  \/ PromptRank(k1[1]) < PromptRank(k2[1])
  \/ k1[1] = k2[1] /\ k1[2] < k2[2]

RECURSIVE SortedKeys(_)
SortedKeys(keys) ==
  IF keys = {} THEN << >>
  ELSE LET first == CHOOSE k \in keys : \A o \in keys \ {k} : KeyBefore(k, o)
       IN <<first>> \o SortedKeys(keys \ {first})

\* lines 285-287: patched_df.groupby(["prompts", "rich_prompt_index"]).mean(numeric_only=True)
GroupByMean(df) ==
  LET rowkeys == [i \in 1..Len(df) |-> GroupKey(df[i])]
      keys == SortedKeys({ rowkeys[i] : i \in 1..Len(df) })
  IN [j \in 1..Len(keys) |->
        [prompts |-> keys[j][1], rich_prompt_index |-> keys[j][2],
         loss |-> Mean(SelectRows(df, rowkeys, keys[j]))]]

\* lines 288-290: reduced_df.join(rich_prompts_df, on="rich_prompt_index"), a
\* left join on the index of rich_prompts_df; a key the table does not have
\* gives NaN columns
JoinProvenance(reduced_df, prov) ==
  [j \in 1..Len(reduced_df) |->
     LET r == reduced_df[j]
         k == r.rich_prompt_index + 1
     IN IF k \in DOMAIN prov
        THEN [prompts |-> r.prompts, rich_prompt_index |-> r.rich_prompt_index,
              loss |-> r.loss, rich_prompts |-> {prov[k].rich_prompts},
              phrases |-> {prov[k].phrases}, act_name |-> {prov[k].act_name},
              coeff |-> {prov[k].coeff}]
        ELSE [prompts |-> r.prompts, rich_prompt_index |-> r.rich_prompt_index,
              loss |-> r.loss, rich_prompts |-> {}, phrases |-> {},
              act_name |-> {}, coeff |-> {}]]

\* line 291: normal_df.groupby(["prompts"]).mean(numeric_only=True)
NormalKey(row) == << row.prompts, 0 >>

GroupByPromptMean(df) ==
  LET rowkeys == [i \in 1..Len(df) |-> NormalKey(df[i])]
      keys == SortedKeys({ rowkeys[i] : i \in 1..Len(df) })
  IN [j \in 1..Len(keys) |->
        [prompts |-> keys[j][1], loss |-> Mean(SelectRows(df, rowkeys, keys[j]))]]

InitReduce ==
  /\ rd_pc = "call"
  /\ normal_df \in SeqsUpTo(NormalRowSet, MaxNormalRows)
  /\ patched_df \in SeqsUpTo(PatchedRowSet, MaxRows)
  /\ rich_prompts_df \in { ProvenanceTable, SubSeq(ProvenanceTable, 1, 1) }
  /\ reduced_normal_df = << >>
  /\ reduced_joined_df = << >>

\* lines 285-292
reduce_sweep_resultsMut ==
  /\ rd_pc = "call"
  /\ reduced_joined_df' = JoinProvenance(GroupByMean(patched_df), rich_prompts_df)
  /\ reduced_normal_df' = GroupByPromptMean(normal_df)
  /\ rd_pc' = "returned"
  /\ patched_df' =
       LET rowkeys == [i \in 1..Len(patched_df) |-> GroupKey(patched_df[i])]
           keys == SortedKeys({ rowkeys[i] : i \in 1..Len(patched_df) })
       IN Concat([j \in 1..Len(keys) |-> SelectRows(patched_df, rowkeys, keys[j])])
  /\ UNCHANGED << normal_df, rich_prompts_df >>

reduce_sweep_results ==
  /\ rd_pc = "call"
  /\ reduced_joined_df' = JoinProvenance(GroupByMean(patched_df), rich_prompts_df)
  /\ reduced_normal_df' = GroupByPromptMean(normal_df)
  /\ rd_pc' = "returned"
  /\ UNCHANGED << normal_df, patched_df, rich_prompts_df >>

ReduceUnused ==
  /\ rd_pc = "unused" /\ normal_df = << >> /\ patched_df = << >>
  /\ rich_prompts_df = << >>
  /\ reduced_normal_df = << >> /\ reduced_joined_df = << >>

MakeUnused ==
  /\ mk_phrases = << >> /\ mk_act_names = << >> /\ mk_coeffs = << >>
  /\ mk_pad = FALSE /\ mk_model = FALSE
  /\ mk_pc = "unused" /\ mk_gi = 0 /\ mk_ai = 0 /\ mk_ci = 0
  /\ mk_rows = << >> /\ mk_err = "none" /\ mk_ntok = 0

SweepUnused == op = "unused" /\ pc = "unused" /\ hooks = << >> /\ SweepLocalsReset

InitBuilder == InitMake /\ SweepUnused /\ ReduceUnused

NextBuilder ==
  \/ mk_Assert /\ UNCHANGED << varsSweep, varsReduce >>
  \/ mk_ForPhrases /\ UNCHANGED << varsSweep, varsReduce >>
  \/ mk_ForActNames /\ UNCHANGED << varsSweep, varsReduce >>
  \/ mk_ForCoeffs /\ UNCHANGED << varsSweep, varsReduce >>

SpecBuilder == InitBuilder /\ [][NextBuilder]_vars

InitSweeps == InitSweep /\ MakeUnused /\ ReduceUnused

NextSweeps ==
  \/ Call_sweep_over_prompts /\ UNCHANGED << varsMake, varsReduce >>
  \/ sp_ForPrompt /\ UNCHANGED << varsMake, varsReduce >>
  \/ sp_NormalClean /\ UNCHANGED << varsMake, varsReduce >>
  \/ sp_NormalInstall /\ UNCHANGED << varsMake, varsReduce >>
  \/ sp_NormalGen /\ UNCHANGED << varsMake, varsReduce >>
  \/ sp_NormalClose /\ UNCHANGED << varsMake, varsReduce >>
  \/ sp_NormalAppend /\ UNCHANGED << varsMake, varsReduce >>
  \/ sp_ForRichPrompts /\ UNCHANGED << varsMake, varsReduce >>
  \/ sp_PatchedCompile /\ UNCHANGED << varsMake, varsReduce >>
  \/ sp_PatchedClean /\ UNCHANGED << varsMake, varsReduce >>
  \/ sp_PatchedInstall /\ UNCHANGED << varsMake, varsReduce >>
  \/ sp_PatchedGen /\ UNCHANGED << varsMake, varsReduce >>
  \/ sp_PatchedClose /\ UNCHANGED << varsMake, varsReduce >>
  \/ sp_PatchedTag /\ UNCHANGED << varsMake, varsReduce >>
  \/ sp_Concat /\ UNCHANGED << varsMake, varsReduce >>
  \/ sp_Metrics /\ UNCHANGED << varsMake, varsReduce >>
  \/ Call_sweep_over_metrics /\ UNCHANGED << varsMake, varsReduce >>
  \/ sm_ForRichPrompts /\ UNCHANGED << varsMake, varsReduce >>
  \/ sm_Compile /\ UNCHANGED << varsMake, varsReduce >>
  \/ sm_Remove /\ UNCHANGED << varsMake, varsReduce >>
  \/ sm_Install /\ UNCHANGED << varsMake, varsReduce >>
  \/ sm_Metrics /\ UNCHANGED << varsMake, varsReduce >>
  \/ sm_RemoveAfter /\ UNCHANGED << varsMake, varsReduce >>
  \/ sm_Concat /\ UNCHANGED << varsMake, varsReduce >>
  \/ CallerContinues /\ UNCHANGED << varsMake, varsReduce >>

SpecSweep == InitSweeps /\ [][NextSweeps]_vars

InitReducer == InitReduce /\ MakeUnused /\ SweepUnused

NextReducer == reduce_sweep_results /\ UNCHANGED << varsMake, varsSweep >>

SpecReduce == InitReducer /\ [][NextReducer]_vars

Spec == SpecSweep

\* ------------------------------------------------------------------------
\* Properties of make_rich_prompts
\* ------------------------------------------------------------------------
TheOne(S) == CHOOSE x \in S : TRUE

\* the tokens held by the descriptors of one row, in order
RowTokenData(row) ==
  [i \in 1..Len(row.rich_prompts) |-> TheOne(row.rich_prompts[i].tokens).data]

IsPrefixOf(s, t) == Len(s) <= Len(t) /\ SubSeq(t, 1, Len(s)) = s

C8_PadNeedsModel ==
  (mk_pad /\ ~mk_model) =>
     /\ mk_pc \in {"call", "raised"}
     /\ (mk_pc = "raised" => mk_err = "AssertionError")
     /\ mk_rows = << >>
     /\ mk_ntok = 0

C8_Witness ==
  /\ mk_pad /\ ~mk_model
  /\ mk_pc = "raised"
  /\ Len(mk_phrases) = 2 /\ mk_act_names # << >> /\ mk_coeffs # << >>

\* C9: with padding, in every row all descriptors hold the same number of
\* tokens, the largest token count among the phrases of the row's own
\* group, and each is the phrase's tokens followed by pad tokens only.
C9_PaddedToGroupMax ==
  mk_pad =>
    \A r \in 1..Len(mk_rows) :
      LET row == mk_rows[r]
          own == { Len(to_tokens(row.phrases[i][1])) : i \in 1..Len(row.phrases) }
      IN \A i \in 1..Len(row.rich_prompts) :
           LET orig == to_tokens(row.phrases[i][1])
               data == RowTokenData(row)[i]
           IN /\ row.rich_prompts[i].prompt = {}
              /\ \A n \in own : n <= Len(data)
              /\ Len(data) \in own
              /\ IsPrefixOf(orig, data)
              /\ \A j \in (Len(orig) + 1)..Len(data) : data[j] = to_single_token(0)

C9_Witness ==
  /\ mk_pad /\ mk_pc = "returned"
  /\ \E r1, r2 \in 1..Len(mk_rows) :
       /\ Len(mk_rows[r1].rich_prompts) > 0 /\ Len(mk_rows[r2].rich_prompts) > 0
       /\ Len(RowTokenData(mk_rows[r1])[1]) = 2
       /\ Len(RowTokenData(mk_rows[r2])[1]) = 3
       /\ \E i \in 1..Len(mk_rows[r2].rich_prompts) :
            Len(to_tokens(mk_rows[r2].phrases[i][1])) < 3

\* C10: padding is idempotent and repeatable: the rows built from one
\* group hold the same tokens for every site and coefficient, and padding
\* the already padded tokens of a row to their maximum adds no token.
C10_PaddingIdempotent ==
  mk_pad =>
    /\ \A r1, r2 \in 1..Len(mk_rows) :
         mk_rows[r1].phrases = mk_rows[r2].phrases =>
           RowTokenData(mk_rows[r1]) = RowTokenData(mk_rows[r2])
    /\ \A r \in 1..Len(mk_rows) :
         LET padded == RowTokenData(mk_rows[r])
         IN PadTokensList(padded, MaxLen(padded), to_single_token(0)) = padded

C10_Witness ==
  /\ mk_pad /\ mk_pc = "returned"
  /\ \E r1, r2 \in 1..Len(mk_rows) :
       /\ mk_rows[r1].phrases = mk_rows[r2].phrases
       /\ mk_rows[r1].act_name # mk_rows[r2].act_name
       /\ mk_rows[r1].coeff # mk_rows[r2].coeff
       /\ \E i \in 1..Len(mk_rows[r1].rich_prompts) :
            Len(to_tokens(mk_rows[r1].phrases[i][1])) < Len(RowTokenData(mk_rows[r1])[i])

\* ------------------------------------------------------------------------
\* Properties of the sweeps
\* ------------------------------------------------------------------------
SetHooks(rps, owner) == add_hooks(<< >>, hook_fns_from_rich_prompts(rps), owner)

\* the sweep sessions whose hooks are on the model
ActiveSessions ==
  { hooks[i].owner : i \in 1..Len(hooks) } \ { Owner("caller", 0, 0) }

\* C2: once a session of a sweep has ended, by return or by error, no hook
\* is on the model; in particular not when a metric function raised in
\* sweep_over_metrics.
C2_SessionCleanup ==
  /\ ( /\ op = "sweep_over_prompts"
       /\ pc \in {"normal_append", "patched_tag", "for_rich_prompts", "for_prompt",
                  "patched_compile", "concat", "add_metric_cols", "returned",
                  "raised"}
       /\ pi >= 1 ) => hooks = << >>
  /\ ( /\ op = "sweep_over_metrics"
       /\ \/ pc \in {"for_rich_prompts", "concat", "returned"} /\ enum_next >= 1
          \/ pc = "compile" /\ index >= 1
          \/ pc = "raised" /\ err = "MetricError" ) => hooks = << >>

\* C3: sweep_over_prompts returns P x N baseline rows and P x S x M
\* intervened rows, every prompt having M rows for every set index.
C3_RowCounts ==
  (op = "sweep_over_prompts" /\ pc = "returned") =>
    /\ Len(normal_all) = Len(prompts) * num_normal_completions
    /\ Len(patched_all) = Len(prompts) * Len(rich_prompts) * num_patched_completions
    /\ \A p \in 1..Len(prompts), k \in 0..(Len(rich_prompts) - 1) :
         Cardinality({ i \in 1..Len(patched_all) :
                         /\ patched_all[i].prompts = prompts[p]
                         /\ patched_all[i].rich_prompt_index = k })
           = num_patched_completions

\* C5: in sweep_over_metrics the metrics of set k are evaluated while the
\* installed hooks are exactly those compiled from set k, and no hook is
\* left on the model when the next set is taken up.
C5_MetricsUnderOwnHooks ==
  op = "sweep_over_metrics" =>
    /\ pc = "metrics" =>
         hooks = SetHooks(rich_prompts[index + 1],
                          Owner("sweep_over_metrics", 0, index))
    /\ (pc = "compile" /\ index >= 1) => hooks = << >>
    /\ \A j \in 1..Len(patched_list) : \A i \in 1..Len(patched_list[j]) :
         patched_list[j][i].under =
           SetHooks(rich_prompts[j], Owner("sweep_over_metrics", 0, j - 1))

C5_Witness ==
  /\ op = "sweep_over_metrics" /\ pc = "metrics" /\ index = 1
  /\ hooks_at_call # << >> /\ hooks # << >>
  /\ Len(patched_list) = 1 /\ Len(patched_list[1]) = 2

\* C6: every baseline generation of sweep_over_prompts runs with no hook
\* on the model, for the first prompt and for the later ones.
C6_BaselineNoHooks ==
  op = "sweep_over_prompts" =>
    /\ pc = "normal_gen" => hooks = << >>
    /\ \A j \in 1..Len(normal_list) : \A i \in 1..Len(normal_list[j]) :
         normal_list[j][i].under = << >>

C6_Witness ==
  /\ op = "sweep_over_prompts" /\ pc = "normal_gen" /\ pi = 2
  /\ hooks_at_call # << >>
  /\ \E j \in 1..Len(patched_list) : \E i \in 1..Len(patched_list[j]) :
       patched_list[j][i].under # << >>

\* C7: the hooks on the model belong to at most one sweep session, and a
\* session installs its hooks only on a model that carries none.
C7_OneSessionAtATime ==
  /\ Cardinality(ActiveSessions) <= 1
  /\ pc \in {"normal_install", "patched_install", "install"} => hooks = << >>

C7_Witness ==
  /\ op = "sweep_over_metrics" /\ pc = "metrics" /\ index = 1
  /\ Cardinality(ActiveSessions) = 1
  /\ hooks_at_call # << >>

\* ------------------------------------------------------------------------
\* Properties of reduce_sweep_results
\* ------------------------------------------------------------------------
RECURSIVE SumOver(_, _)
SumOver(I, df) ==
  IF I = {} THEN 0
  ELSE LET i == CHOOSE x \in I : TRUE IN df[i].loss + SumOver(I \ {i}, df)

TrialsOf(df, p, k) ==
  { i \in 1..Len(df) : df[i].prompts = p /\ df[i].rich_prompt_index = k }

BaselineOf(df, p) == { i \in 1..Len(df) : df[i].prompts = p }

\* C4: the reduced table has one row per (prompt, rich_prompt_index) pair of
\* the intervened table, holding the mean of the pair's trial rows and the
\* phrases, act_name and coeff of the provenance row of that index; the
\* baseline aggregate has one row per prompt holding the mean of its rows.
C4_ReducerMeans ==
  rd_pc = "returned" =>
    /\ \A p \in {"p1", "p2"}, k \in 0..1 :
         LET trials == TrialsOf(patched_df, p, k)
             rows == { j \in 1..Len(reduced_joined_df) :
                         /\ reduced_joined_df[j].prompts = p
                         /\ reduced_joined_df[j].rich_prompt_index = k }
         IN /\ Cardinality(rows) = IF trials = {} THEN 0 ELSE 1
            /\ \A j \in rows :
                 LET r == reduced_joined_df[j]
                 IN /\ r.loss.den > 0
                    /\ r.loss.num * Cardinality(trials)
                         = SumOver(trials, patched_df) * r.loss.den
                    /\ (k + 1) \in DOMAIN rich_prompts_df =>
                         /\ r.phrases = {rich_prompts_df[k + 1].phrases}
                         /\ r.act_name = {rich_prompts_df[k + 1].act_name}
                         /\ r.coeff = {rich_prompts_df[k + 1].coeff}
    /\ \A p \in {"p1", "p2"} :
         LET base == BaselineOf(normal_df, p)
             rows == { j \in 1..Len(reduced_normal_df) :
                         reduced_normal_df[j].prompts = p }
         IN /\ Cardinality(rows) = IF base = {} THEN 0 ELSE 1
            /\ \A j \in rows :
                 LET r == reduced_normal_df[j]
                 IN /\ r.loss.den > 0
                    /\ r.loss.num * Cardinality(base)
                         = SumOver(base, normal_df) * r.loss.den

C4_Witness ==
  /\ rd_pc = "returned"
  /\ Len(patched_df) = 3 /\ Len(reduced_joined_df) = 2
  /\ Len(rich_prompts_df) = 2
  /\ \E j \in 1..Len(reduced_joined_df) :
       /\ reduced_joined_df[j].rich_prompt_index = 1
       /\ reduced_joined_df[j].loss = [num |-> 5, den |-> 2]
  /\ Len(reduced_normal_df) = 1 /\ Len(normal_df) = 2

\* ------------------------------------------------------------------------
\* Provenance from make_rich_prompts through the sweeps to the join
\* ------------------------------------------------------------------------
\* the compiled functions of a snapshot of installed hooks
FnsOf(installed) == [i \in 1..Len(installed) |-> installed[i].fn]

\* the provenance columns the join of lines 288-290 attaches to a row that
\* carries rich_prompt_index k
ProvenanceOf(k) ==
  JoinProvenance(<< [prompts |-> "p1", rich_prompt_index |-> k,
                     loss |-> [num |-> 0, den |-> 1]] >>, PipelineTable)[1]

PatchedRowsSoFar == Concat(patched_list) \o patched_all

\* C11: when the rich_prompts column of a make_rich_prompts table is swept,
\* the rich_prompt_index of every result row is the index of the table row
\* whose descriptor set was on the model when the row was produced: the
\* join on that index finds a row, its descriptor set compiles to the hooks
\* the row was produced under, and its phrases, act_name and coeff are the
\* ones that set was built from.
C11_Provenance ==
  rich_prompts = RichPromptsColumn(PipelineTable) =>
    \A i \in 1..Len(PatchedRowsSoFar) :
      LET r == PatchedRowsSoFar[i]
          joined == ProvenanceOf(r.rich_prompt_index)
      IN /\ joined.rich_prompts # {}
         /\ r.under # << >>
         /\ FnsOf(r.under) = hook_fns_from_rich_prompts(TheOne(joined.rich_prompts))
         /\ TheOne(joined.rich_prompts)
              = PlainRichPrompts(TheOne(joined.phrases), TheOne(joined.act_name),
                                 TheOne(joined.coeff))
         /\ \A h \in 1..Len(r.under) :
              /\ r.under[h].act_name = TheOne(joined.act_name)
              /\ \A d \in 1..Len(r.under[h].fn.adds) :
                   r.under[h].fn.adds[d].coeff
                     = TheOne(joined.phrases)[d][2] * TheOne(joined.coeff)

C11_Witness ==
  /\ pc = "returned"
  /\ rich_prompts = RichPromptsColumn(PipelineTable)
  /\ Len(patched_all) >= 8
  /\ \E i, j \in 1..Len(patched_all) :
       /\ patched_all[i].rich_prompt_index = 3
       /\ patched_all[j].rich_prompt_index = 1
       /\ ProvenanceOf(3).act_name = {5} /\ ProvenanceOf(3).coeff = {-1}
       /\ ProvenanceOf(1).act_name = {0}
       /\ patched_all[i].under # patched_all[j].under

\* ------------------------------------------------------------------------
\* The two sweeps and the reducer as the calls of one analysis: a run is a
\* run of the sweeps or a run of the reducer
\* ------------------------------------------------------------------------
InitRunners == InitSweeps \/ InitReducer

NextRunners == NextSweeps \/ NextReducer

SpecRunners == InitRunners /\ [][NextRunners]_vars

SweepRunning == op \in {"sweep_over_prompts", "sweep_over_metrics"}
                  /\ pc \notin {"returned", "raised"}

\* what one step of a running call does to the arguments and to the frames
\* already collected
C12_Frame ==
  /\ SweepRunning =>
       /\ prompts' = prompts /\ texts' = texts /\ rich_prompts' = rich_prompts
       /\ IsPrefixOf(normal_list, normal_list')
       /\ IsPrefixOf(patched_list, patched_list')
  /\ rd_pc = "call" =>
       /\ normal_df' = normal_df /\ patched_df' = patched_df
       /\ rich_prompts_df' = rich_prompts_df

\* C12: the sweeps and the reducer leave their inputs as they were: no step
\* of a running call changes the descriptor sets (number, order, coeff,
\* act_name, content), the prompts or texts, or the reducer's three input
\* tables; and the returned tables do not share rows: a frame once
\* collected is not changed by later steps, and tagging the intervened rows
\* puts no rich_prompt_index on a baseline row.
C12_InputsUnchanged ==
  /\ [][C12_Frame]_vars
  /\ [](\A i \in 1..Len(normal_all) : "rich_prompt_index" \notin DOMAIN normal_all[i])

C12_Witness ==
  /\ rd_pc = "returned"
  /\ Len(patched_df) = 3 /\ Len(normal_df) = 2
  /\ PromptRank(patched_df[1].prompts) > PromptRank(patched_df[2].prompts)
  /\ Len(reduced_joined_df) = 3 /\ Len(reduced_normal_df) = 2

\* ------------------------------------------------------------------------
\* Failure of one sweep element
\* ------------------------------------------------------------------------
ElementErrors == {"GenerationError", "MetricError"}

\* after an error: the next step either only carries the same error out of
\* the call, running no generation, no metric and no loop step and adding
\* nothing to the collected frames, or it is the caller going on after the
\* raise
C13_Propagates ==
  err \in ElementErrors =>
    \/ /\ pc = "raised" /\ pc' = "idle"
    \/ /\ pc # "raised" /\ pc' = "raised"
       /\ err' = err
       /\ UNCHANGED << sweepLoopVars, sweepTables, cur_df >>

\* C13: when the generation or metric call of one sweep element fails, the
\* sweep stops at that element: no later element is run and the element is
\* not tried again, the error that was raised is the one that reaches the
\* caller, and the call does not return a table.
C13_StopsAtFailure ==
  /\ [](err \in ElementErrors =>
          /\ pc \in {"normal_close", "patched_close", "raised"}
          /\ op = "sweep_over_metrics" => pc = "raised")
  /\ [](pc = "returned" => err = "none")
  /\ [][C13_Propagates]_vars

C13_Witness ==
  /\ op = "sweep_over_metrics" /\ pc = "raised" /\ err = "MetricError"
  /\ index = 1 /\ Len(rich_prompts) = 4
  /\ Len(patched_list) = 1 /\ Len(patched_list[1]) = 2
  /\ patched_all = << >>

\* ------------------------------------------------------------------------
\* Superposition of the compiled hooks
\* ------------------------------------------------------------------------
\* activations a forward pass may carry at a site, at least as long as
\* every injected content
Targets == { <<0, 0, 0>>, <<4, -2, 7, 1>> }

Sites == {0, 5}

\* what the installed hooks add at one site, position by position
Delta(installed, site, target) ==
  [i \in 1..Len(target) |-> ApplyHooks(installed, site, target)[i] - target[i]]

\* the sum of what each descriptor of the set adds when compiled and
\* installed alone
RECURSIVE SumOfAlone(_, _, _, _)
SumOfAlone(rps, site, target, i) ==
  IF rps = << >> THEN 0
  ELSE Delta(SetHooks(<<Head(rps)>>, Owner("alone", 0, 0)), site, target)[i]
         + SumOfAlone(Tail(rps), site, target, i)

C15_OneContentForm ==
  \A r \in 1..Len(mk_rows) : \A i \in 1..Len(mk_rows[r].rich_prompts) :
    LET rp == mk_rows[r].rich_prompts[i]
        phrase == mk_rows[r].phrases[i][1]
    IN /\ Cardinality(rp.prompt) + Cardinality(rp.tokens) = 1
       /\ ~mk_pad => rp.prompt = {phrase}
       /\ mk_pad =>
            /\ rp.tokens # {}
            /\ TheOne(rp.tokens).data =
                 PadTokensList(TokensList(mk_rows[r].phrases),
                               MaxLen(TokensList(mk_rows[r].phrases)),
                               to_single_token(0))[i]

C15_Witness ==
  /\ ~mk_pad /\ mk_pc = "returned" /\ Len(mk_rows) >= 4
  /\ \E r \in 1..Len(mk_rows) :
       /\ Len(mk_rows[r].rich_prompts) = 3
       /\ mk_rows[r].rich_prompts[1].prompt = {<<1, 2>>}
       /\ mk_rows[r].rich_prompts[1].tokens = {}

\* ------------------------------------------------------------------------
\* Row counts of sweep_over_metrics
\* ------------------------------------------------------------------------
RowsTagged(df, k) == { i \in 1..Len(df) : df[i].rich_prompt_index = k }

C17_CompileOnCleanModel ==
  (op = "sweep_over_metrics" /\ pc = "compile") => hooks = << >>

\* ------------------------------------------------------------------------
\* Pairing of prompts and descriptor sets in sweep_over_prompts
\* ------------------------------------------------------------------------
\* C18: in sweep_over_prompts every prompt is paired with every descriptor
\* set: when the loop over the sets has ended for a prompt, S intervened
\* passes have been made for it, for the first prompt and for every later
\* one, whatever iterable rich_prompts is.
C18_EveryPromptEverySet ==
  (op = "sweep_over_prompts" /\ pc = "for_prompt") =>
    Len(patched_list) = pi * Len(rich_prompts)

\* C19: the rows of make_rich_prompts are ordered group-major, then by
\* site, then by coefficient: with 0-based positions, the set built from
\* group g, site s and coefficient c is the row of index
\* (g x |S| + s) x |C| + c, and the row's phrases, act_name and coeff are
\* that group, site and coefficient.  Without padding the table is the one
\* MakeTable gives for the arguments.
C19_RowOrder ==
  mk_pc = "returned" =>
    /\ \A g \in 0..(Len(mk_phrases) - 1), s \in 0..(Len(mk_act_names) - 1),
          c \in 0..(Len(mk_coeffs) - 1) :
         LET k == (g * Len(mk_act_names) + s) * Len(mk_coeffs) + c
         IN /\ (k + 1) \in DOMAIN mk_rows
            /\ mk_rows[k + 1].phrases = mk_phrases[g + 1]
            /\ mk_rows[k + 1].act_name = mk_act_names[s + 1]
            /\ mk_rows[k + 1].coeff = mk_coeffs[c + 1]
            /\ \A i \in 1..Len(mk_rows[k + 1].rich_prompts) :
                 /\ mk_rows[k + 1].rich_prompts[i].act_name = mk_act_names[s + 1]
                 /\ mk_rows[k + 1].rich_prompts[i].coeff
                      = mk_phrases[g + 1][i][2] * mk_coeffs[c + 1]
    /\ ~mk_pad => mk_rows = MakeTable(mk_phrases, mk_act_names, mk_coeffs)

C19_Witness ==
  /\ mk_pc = "returned"
  /\ Len(mk_phrases) = 2 /\ Len(mk_act_names) = 2 /\ Len(mk_coeffs) = 2
  /\ mk_phrases[1] # mk_phrases[2]
  /\ Len(mk_rows) = 8
  /\ mk_rows[6].phrases = mk_phrases[2]
  /\ mk_rows[6].act_name = 0 /\ mk_rows[6].coeff = -1
  /\ mk_rows[3].phrases = mk_phrases[1]
  /\ mk_rows[3].act_name = 5 /\ mk_rows[3].coeff = 10

\* ------------------------------------------------------------------------
\* Sweeps over nothing
\* ------------------------------------------------------------------------
Degenerate ==
  \/ op = "sweep_over_prompts" /\ (prompts = << >> \/ rich_prompts = << >>)
  \/ op = "sweep_over_metrics" /\ (texts = << >> \/ rich_prompts = << >>)

\* C20: a sweep over no prompts or no descriptor sets ends by returning
\* tables, not by failing: sweep_over_prompts with prompts and no sets
\* returns the P x N baseline rows and an empty intervened table, a sweep
\* with no prompts or no sets returns empty tables, and no hook is on the
\* model afterwards.
C20_DegenerateSweeps ==
  (Degenerate /\ pc \in {"returned", "raised"} /\ err \notin ElementErrors) =>
    /\ pc = "returned" /\ err = "none"
    /\ patched_all = << >>
    /\ op = "sweep_over_prompts" =>
         Len(normal_all) = Len(prompts) * num_normal_completions
    /\ hooks = << >>

====
